---- MODULE Spec2Model ----
(***************************************************************************)
(* Model of the visual-change / memory-scan narrowing pipeline:            *)
(*   - the memory scanner backends (src/src/memory_scanner)                *)
(*   - the workflow orchestrator   (src/src/orchestrator)                  *)
(*   - the visual analyzer's monitoring switch (src/src/visual_analyzer)   *)
(*   - the message codec and the component server's connection handler     *)
(*     (src/src/communication)                                             *)
(* Optional Python values are modelled as sequences of length <= 1:        *)
(* None is <<>> and a present value v is <<v>>.  A bytes object is the     *)
(* sequence of its bytes; the failed conversion / failed read (None) is    *)
(* the empty sequence, which is also what `not value_bytes` tests.         *)
(***************************************************************************)
EXTENDS Integers, Sequences, FiniteSets, TLC

\* ---------------------------------------------------------------- bounds
\* number of byte cells of the target process that are mapped
MaxAddr == 2
\* cap on the orchestrator's detected_values list (unbounded in the code)
MaxLog == 3
\* saturation point of the history counter gen_steps
MaxSteps == 3
\* number of frames the peer writes on the connection
MaxSent == 2
MaxLoops == 2       \* monitoring loop threads ever started
MaxHistory == 2     \* entries VisualAnalyzer.detected_changes keeps
MaxChanges == 3     \* changes a monitoring loop records

Addr == 1..MaxAddr
\* byte contents the target process writes
Byte == {0, 1}
None == <<>>
Some(v) == <<v>>
\* values a caller passes to the scanner (None = no value)
Values == {None, Some(1), Some(-1)}
\* values a visual-change message carries in its payload
MsgValues == {None, Some(1)}
\* scan types named by BaseMemoryScanner's interface
ScanTypes == {"exact", "greater", "less", "changed", "unchanged"}
Backends == {"x64dbg", "cheat_engine", "custom"}

VARIABLES
    \* --- target process (environment)
    mem,                    \* Addr -> Byte, the live memory of the target
    available,              \* backends whose connect() succeeds on this machine
    \* --- BaseMemoryScanner fields
    backend,                \* which scanner class the instance is ("none": no scanner)
    is_connected,
    process_handle,         \* CustomScanner.process_handle is not None
    current_scan_results,   \* sequence of candidate addresses
    scan_count,
    \* --- WorkflowOrchestrator fields
    visual_analyzer,        \* self.visual_analyzer is not None
    memory_scanner,         \* self.memory_scanner is not None
    re_adapter,             \* self.re_adapter is not None
    communication_server,   \* the server was started (handlers reachable)
    is_running,
    current_scan_addresses,
    detected_values,
    workflow_state,
    \* --- VisualAnalyzer fields
    monitoring,
    monitoring_regions,
    \* --- observation of the last operation
    op,                     \* name of the last operation
    scanner_call,           \* scanner method invoked by the last operation
    mem_reads,              \* addresses of the target read by the last operation
    ret,                    \* what the last operation returned
    scan_args,              \* arguments of the last initial_scan / filter_scan call
    gen_steps,              \* scan-or-filter steps since the last reset (history)
    prev_call,              \* outcome of the call before the last one when it was
                            \* a call of the same operation ("none" otherwise)
    \* --- one client connection to the ComponentServer
    conn_open,              \* the connection is accepted and not closed
    sent,                   \* what the peer has written, in order: each entry is
                            \* the frame and, when ComponentClient.send_message
                            \* wrote it, the Message it was given
    wire,                   \* bytes written by the peer and not yet received
    buffer,                 \* the handler's local `buffer`
    message_queue,          \* ComponentServer.message_queue, oldest first
    handled,                \* messages passed to a registered handler, in order
    replies,                \* frames the server has written on the connection
    \* --- ComponentClient fields and its network
    client_connected,       \* self.connected
    client_socket,          \* self.socket is not None
    listening,              \* a server accepts connections at (host, port)
    link_alive,             \* the client's socket is connected to a live peer
    connect_attempts,       \* connect() calls made by the last send_message call
    delivered,              \* frames the client wrote on a live connection, in order
    \* --- ChangeDetector and the monitoring loop of VisualAnalyzer
    threshold,              \* ChangeDetector.threshold, in percent
    previous_frame,         \* ChangeDetector.previous_frame (None: <<>>)
    detect_result,          \* what the last detect_changes call returned
    screen,                 \* region name -> frame a capture of it returns now
    threads,                \* loop thread -> -1 (not alive), 0 (at the while
                            \* test) or i (about to analyze the i-th region)
    monitoring_thread,      \* the thread stop_monitoring joins (0: none)
    stopping,               \* a stop_monitoring call is waiting in join
    detected_changes,       \* VisualAnalyzer.detected_changes
    detects_since_start,    \* detect_changes calls since the last start (history)
    sampled,                \* the region analyzed last and, for each region,
                            \* the frame last sampled from it (history)
    \* --- handler calls in flight on the server's connection threads
    handlers                \* connection thread -> where its _handle_visual_change is

scanner_vars == <<backend, is_connected, process_handle, current_scan_results, scan_count>>
orch_vars == <<visual_analyzer, memory_scanner, re_adapter, communication_server,
               is_running, current_scan_addresses, detected_values, workflow_state>>
analyzer_vars == <<monitoring, monitoring_regions>>
obs_vars == <<op, scanner_call, mem_reads, ret, scan_args, gen_steps, prev_call>>
comm_vars == <<conn_open, sent, wire, buffer, message_queue, handled, replies>>
client_vars == <<client_connected, client_socket, listening, link_alive,
                 connect_attempts, delivered>>
vision_vars == <<threshold, previous_frame, detect_result, screen, threads,
                 monitoring_thread, stopping, detected_changes, detects_since_start,
                 sampled>>
handler_vars == <<handlers>>
vars == <<mem, available, scanner_vars, orch_vars, analyzer_vars, obs_vars, comm_vars,
          client_vars, vision_vars, handler_vars>>

\* ------------------------------------------------------------ value types
\* ValueType enum members the model exercises
ValueTypes == {"int8", "uint8", "int16", "int32"}

\* struct format width of each type
SizeOf(value_type) ==
    CASE value_type = "int8" -> 1
      [] value_type = "uint8" -> 1
      [] value_type = "int16" -> 2
      [] value_type = "int32" -> 4

\* 256^(i-1), the weight of the i-th little-endian byte
Weight(i) == CASE i = 1 -> 1 [] i = 2 -> 256 [] i = 3 -> 65536 [] i = 4 -> 16777216

\* struct.pack raises struct.error outside this range
InRange(v, value_type) ==
    CASE value_type = "int8" -> v >= -128 /\ v <= 127
      [] value_type = "uint8" -> v >= 0 /\ v <= 255
      [] value_type = "int16" -> v >= -32768 /\ v <= 32767
      [] value_type = "int32" -> v >= -2147483647 - 1 /\ v <= 2147483647

\* CustomScanner._value_to_bytes: little-endian two's complement, or None
\* (the empty sequence) when int(value) or struct.pack raises
_value_to_bytes(value, value_type) ==
    IF value = None THEN <<>>
    ELSE IF ~InRange(value[1], value_type) THEN <<>>
    ELSE [i \in 1..SizeOf(value_type) |-> (value[1] \div Weight(i)) % 256]

\* the number a byte string encodes under value_type (struct.unpack), used
\* to state the ordering comparisons on contents
FromBytes(bytes, value_type) ==
    LET n == Len(bytes)
        RECURSIVE Sum(_)
        Sum(i) == IF i >= n THEN 0 ELSE bytes[i] * Weight(i) + Sum(i + 1)
        top == IF value_type \in {"int8", "int16", "int32"} /\ bytes[n] >= 128
               THEN bytes[n] - 256 ELSE bytes[n]
    IN  Sum(1) + top * Weight(n)

\* process_handle.read_bytes(addr, size); an unmapped byte makes it raise
ReadBytes(m, a, size) ==
    IF \A i \in 0..(size - 1) : (a + i) \in Addr
    THEN [i \in 1..size |-> m[a + i - 1]]
    ELSE <<>>

\* addresses touched by ReadBytes
ReadSet(a, size) == {a + i : i \in 0..(size - 1)} \cap Addr

\* CustomScanner.read_memory: None when not connected or when the read raises
read_memory(m, a, size) ==
    IF ~is_connected \/ ~process_handle THEN <<>> ELSE ReadBytes(m, a, size)

\* list comprehension [x for x in s if Test(x)], order kept
RECURSIVE SelectSeqBy(_, _)
SelectSeqBy(s, keep) ==
    IF s = <<>> THEN <<>>
    ELSE IF Head(s) \in keep THEN <<Head(s)>> \o SelectSeqBy(Tail(s), keep)
    ELSE SelectSeqBy(Tail(s), keep)

Range(s) == {s[i] : i \in 1..Len(s)}

\* ascending sequence of the members of a set of addresses
RECURSIVE SetToSeq(_)
SetToSeq(S) ==
    IF S = {} THEN <<>>
    ELSE LET x == CHOOSE y \in S : \A z \in S : y <= z
         IN  <<x>> \o SetToSeq(S \ {x})

\* The scan body that CustomScanner.initial_scan leaves as a placeholder
\* ("iterate regions, read memory, search for value_bytes, create a
\* ScanResult for each match"): every address whose bytes equal value_bytes.
ScanMemoryRegions(m, value_bytes) ==
    SetToSeq({a \in Addr : ReadBytes(m, a, Len(value_bytes)) = value_bytes})

\* a filter that searches the whole memory again instead of the prior results
FilterRescanAll(results, m, value_bytes) ==
    ScanMemoryRegions(m, value_bytes)

\* the loop of CustomScanner.filter_scan: keep result iff the bytes read at
\* its address equal value_bytes (a failed read never equals them)

FilterLoop(results, m, value_bytes) ==
    SelectSeqBy(results,
        {a \in Range(results) : read_memory(m, a, Len(value_bytes)) = value_bytes})

Min(a, b) == IF a < b THEN a ELSE b

\* return value of a scanner / orchestrator operation
\* (status: the dictionary get_workflow_status returns, absent otherwise)
Ret(success, error, results) ==
    [success |-> success, error |-> error, results |-> results, raised |-> FALSE,
     status |-> <<>>]
\* an exception that propagates to the caller instead of a return value
Raised(exception) ==
    [success |-> FALSE, error |-> exception, results |-> <<>>, raised |-> TRUE,
     status |-> <<>>]
NoRet == Ret(TRUE, "", <<>>)

\* operations whose immediate repetition is observed
Repeatable == {"stop_workflow", "get_workflow_status"}

\* bookkeeping of an orchestrator / scanner operation: it becomes the last
\* operation, and it touches nothing of the server's connection or of a
\* component client
Called(name) ==
    /\ op' = name
    /\ prev_call' = IF name \in Repeatable /\ op = name
                    THEN (IF ret.success THEN "ok" ELSE "failed")
                    ELSE "none"
    /\ UNCHANGED <<comm_vars, client_vars, handler_vars>>

\* arguments of a scan call
Args(value, value_type, scan_type) ==
    [value |-> value, value_type |-> value_type, scan_type |-> scan_type]
NoArgs == Args(None, "int32", "exact")

\* ------------------------------------------------------- memory scanner
\* <backend>Scanner.connect
connect ==
    /\ \/ /\ backend \in available
          /\ is_connected' = TRUE
          /\ process_handle' = (backend = "custom")
       \/ /\ backend \notin available
          /\ is_connected' = is_connected
          \* CustomScanner assigns process_handle before open_process_from_id
          \* can raise; the other backends have no handle
          /\ process_handle' \in (IF backend = "custom" THEN {process_handle, TRUE}
                                  ELSE {process_handle})
    /\ UNCHANGED <<backend, current_scan_results, scan_count>>
    /\ scanner_call' = "connect"
    /\ mem_reads' = {}
    /\ scan_args' = scan_args
    /\ gen_steps' = gen_steps

\* <backend>Scanner.disconnect
disconnect ==
    /\ process_handle' = FALSE
    /\ is_connected' = FALSE
    /\ current_scan_results' = <<>>
    /\ UNCHANGED <<backend, scan_count>>
    /\ scanner_call' = "disconnect"
    /\ mem_reads' = {}
    /\ scan_args' = scan_args
    /\ gen_steps' = 0

\* the guards of CustomScanner.initial_scan before the scan body
InitialScanComputes(value, value_type) ==
    /\ backend = "custom"
    /\ is_connected /\ process_handle
    /\ _value_to_bytes(value, value_type) # <<>>

\* what initial_scan returns (the stub backends return [])
InitialScanResults(value, value_type) ==
    IF InitialScanComputes(value, value_type)
    THEN ScanMemoryRegions(mem, _value_to_bytes(value, value_type))
    ELSE <<>>

\* <backend>Scanner.initial_scan
initial_scan(value, value_type, scan_type) ==
    /\ current_scan_results' =
          IF InitialScanComputes(value, value_type)
          THEN InitialScanResults(value, value_type)
          ELSE current_scan_results
    /\ UNCHANGED <<backend, is_connected, process_handle, scan_count>>
    /\ scanner_call' = "initial_scan"
    /\ scan_args' = Args(value, value_type, scan_type)
    /\ mem_reads' = IF InitialScanComputes(value, value_type) THEN Addr ELSE {}
    /\ gen_steps' = IF InitialScanComputes(value, value_type)
                       \/ (backend = "x64dbg" /\ is_connected)
                    THEN 1 ELSE gen_steps

\* the guards of CustomScanner.filter_scan before the loop
FilterScanComputes(value, value_type) ==
    /\ backend = "custom"
    /\ current_scan_results # <<>>
    /\ _value_to_bytes(value, value_type) # <<>>

\* filter_scan that falls back to a full scan when there is nothing to filter
FilterScanResultsFallback(value, value_type) ==
    IF FilterScanComputes(value, value_type)
    THEN FilterLoop(current_scan_results, mem, _value_to_bytes(value, value_type))
    ELSE InitialScanResults(value, value_type)

\* what filter_scan returns
FilterScanResults(value, value_type) ==
    IF FilterScanComputes(value, value_type)
    THEN FilterLoop(current_scan_results, mem, _value_to_bytes(value, value_type))
    ELSE <<>>

\* addresses filter_scan reads through read_memory
FilterScanReads(value, value_type) ==
    IF FilterScanComputes(value, value_type) /\ is_connected /\ process_handle
    THEN UNION {ReadSet(a, Len(_value_to_bytes(value, value_type)))
                    : a \in Range(current_scan_results)}
    ELSE {}

\* <backend>Scanner.filter_scan
filter_scan(value, value_type, scan_type) ==
    /\ current_scan_results' =
          IF FilterScanComputes(value, value_type)
          THEN FilterScanResults(value, value_type)
          ELSE current_scan_results
    /\ UNCHANGED <<backend, is_connected, process_handle, scan_count>>
    /\ scanner_call' = "filter_scan"
    /\ scan_args' = Args(value, value_type, scan_type)
    /\ mem_reads' = FilterScanReads(value, value_type)
    /\ gen_steps' = IF gen_steps = 0 THEN 0 ELSE Min(gen_steps + 1, MaxSteps)

\* clear_scan that resets the counter but forgets to empty the result list
clear_scan_keeps_results ==
    /\ scan_count' = 0
    /\ UNCHANGED <<backend, is_connected, process_handle, current_scan_results>>
    /\ scanner_call' = "clear_scan"
    /\ mem_reads' = {}
    /\ scan_args' = scan_args
    /\ gen_steps' = 0

\* <backend>Scanner.clear_scan
clear_scan ==
    /\ current_scan_results' = <<>>
    /\ scan_count' = 0
    /\ UNCHANGED <<backend, is_connected, process_handle>>
    /\ scanner_call' = "clear_scan"
    /\ mem_reads' = {}
    /\ scan_args' = scan_args
    /\ gen_steps' = 0

\* the target process writes one byte of its own memory
MemWrite(a, b) ==
    /\ mem[a] # b
    /\ mem' = [mem EXCEPT ![a] = b]
    /\ Called("mem_write")
    /\ scanner_call' = "none"
    /\ mem_reads' = {}
    /\ UNCHANGED <<available, scanner_vars, orch_vars, analyzer_vars, ret, scan_args, gen_steps>>

\* --------------------------------------- the scanner driven by its caller
ScannerConnect ==
    /\ connect
    /\ Called("connect")
    /\ ret' = Ret(is_connected' /\ backend \in available,
                  IF backend \in available THEN "" ELSE "connect failed", <<>>)
    /\ UNCHANGED <<mem, available, orch_vars, analyzer_vars>>

ScannerDisconnect ==
    /\ disconnect
    /\ Called("disconnect")
    /\ ret' = Ret(TRUE, "", <<>>)
    /\ UNCHANGED <<mem, available, orch_vars, analyzer_vars>>

ScannerInitialScan(value, value_type, scan_type) ==
    /\ initial_scan(value, value_type, scan_type)
    /\ Called("initial_scan")
    /\ ret' = Ret(TRUE, "", InitialScanResults(value, value_type))
    /\ UNCHANGED <<mem, available, orch_vars, analyzer_vars>>

\* a filter_scan that raises when no candidate survives
ScannerFilterScanRaises(value, value_type, scan_type) ==
    /\ filter_scan(value, value_type, scan_type)
    /\ Called("filter_scan")
    /\ ret' = IF FilterScanComputes(value, value_type)
                 /\ FilterScanResults(value, value_type) = <<>>
              THEN Raised("NarrowingExhausted")
              ELSE Ret(TRUE, "", FilterScanResults(value, value_type))
    /\ UNCHANGED <<mem, available, orch_vars, analyzer_vars>>

ScannerFilterScan(value, value_type, scan_type) ==
    /\ filter_scan(value, value_type, scan_type)
    /\ Called("filter_scan")
    /\ ret' = Ret(TRUE, "", FilterScanResults(value, value_type))
    /\ UNCHANGED <<mem, available, orch_vars, analyzer_vars>>

ScannerClearScan ==
    /\ clear_scan
    /\ Called("clear_scan")
    /\ ret' = Ret(TRUE, "", <<>>)
    /\ UNCHANGED <<mem, available, orch_vars, analyzer_vars>>

\* value types the scanner's caller passes in the scanner specification
ScannerTypes == {"int8", "uint8", "int16"}

\* BaseMemoryScanner.__init__ (any backend class, not yet connected); the
\* orchestrator fields keep their constructor values and are not used
InitWorkflowState ==
    [visual_monitoring |-> FALSE, memory_scanning |-> FALSE,
     breakpoints_set |-> FALSE, current_addresses |-> <<>>, value_type |-> "unset"]

NoRegions == [given |-> FALSE, list |-> <<>>]

\* no component client exists
NoClient ==
    /\ client_connected = FALSE /\ client_socket = FALSE
    /\ listening = FALSE /\ link_alive = FALSE
    /\ connect_attempts = 0 /\ delivered = <<>>

\* a visual analyzer that was constructed with its defaults and never used
NoVision ==
    /\ threshold = 10
    /\ previous_frame = <<>>
    /\ detect_result = <<>>
    /\ screen = <<>>
    /\ threads = <<>>
    /\ monitoring_thread = 0
    /\ stopping = FALSE
    /\ detected_changes = <<>>
    /\ detects_since_start = 0
    /\ sampled = <<>>

\* no handler call is in flight
NoHandlers == handlers = <<>>

\* no peer is connected to the communication server
NoConnection ==
    /\ conn_open = FALSE
    /\ sent = <<>> /\ wire = <<>>
    /\ buffer = <<>> /\ message_queue = <<>> /\ handled = <<>>
    /\ replies = <<>>

InitScanner ==
    /\ mem \in [Addr -> Byte]
    /\ available \in SUBSET {"x64dbg", "custom"}
    /\ backend \in Backends
    /\ is_connected = FALSE
    /\ process_handle = FALSE
    /\ current_scan_results = <<>>
    /\ scan_count = 0
    /\ visual_analyzer = FALSE /\ memory_scanner = FALSE /\ re_adapter = FALSE
    /\ communication_server = FALSE /\ is_running = FALSE
    /\ current_scan_addresses = <<>> /\ detected_values = <<>>
    /\ workflow_state = InitWorkflowState
    /\ monitoring = FALSE /\ monitoring_regions = NoRegions
    /\ op = "init" /\ scanner_call = "none" /\ mem_reads = {} /\ ret = NoRet
    /\ scan_args = NoArgs
    /\ gen_steps = 0
    /\ prev_call = "none"
    /\ NoHandlers
    /\ NoConnection
    /\ NoClient
    /\ NoVision

NextScanner ==
    \/ ScannerConnect /\ UNCHANGED vision_vars
    \/ ScannerDisconnect /\ UNCHANGED vision_vars
    \/ \E v \in Values, t \in ScannerTypes, st \in ScanTypes :
          ScannerInitialScan(v, t, st) /\ UNCHANGED vision_vars
    \/ \E v \in Values, t \in ScannerTypes, st \in ScanTypes :
          ScannerFilterScan(v, t, st) /\ UNCHANGED vision_vars
    \/ ScannerClearScan /\ UNCHANGED vision_vars
    \/ \E a \in Addr, b \in Byte : MemWrite(a, b) /\ UNCHANGED vision_vars

SpecScanner == InitScanner /\ [][NextScanner]_vars

\* ---------------------------------------------------------- scanner factory
\* MemoryScannerFactory._create_specific_scanner: the scanner if its
\* connect() succeeds, else None ("none")
_create_specific_scanner(b, avail) == IF b \in avail THEN b ELSE "none"

\* ["x64dbg", "cheat_engine", "custom"] minus the preferred one, first success
RECURSIVE TryBackends(_, _, _)
TryBackends(backends, preferred_backend, avail) ==
    IF backends = <<>> THEN "none"
    ELSE IF preferred_backend # None /\ Head(backends) = preferred_backend[1]
         THEN TryBackends(Tail(backends), preferred_backend, avail)
    ELSE IF _create_specific_scanner(Head(backends), avail) # "none"
         THEN Head(backends)
    ELSE TryBackends(Tail(backends), preferred_backend, avail)

\* a factory that goes through the default order only
create_scanner_ignoring_preference(preferred_backend, avail) ==
    TryBackends(<<"x64dbg", "cheat_engine", "custom">>, None, avail)

\* MemoryScannerFactory.create_scanner
create_scanner(preferred_backend, avail) ==
    IF preferred_backend # None
       /\ _create_specific_scanner(preferred_backend[1], avail) # "none"
    THEN preferred_backend[1]
    ELSE TryBackends(<<"x64dbg", "cheat_engine", "custom">>, preferred_backend, avail)

\* ------------------------------------------------------------ visual analyzer
\* regions argument: a list of region names, or not given (None)
Regions(list) == [given |-> TRUE, list |-> list]
RegionInputs == {NoRegions, Regions(<<"r1", "r2">>)}

\* VisualAnalyzer.start_monitoring: "refused" when already monitoring; else
\* arms the loop; the closing log line evaluates len(regions), which raises
\* TypeError for regions = None after the loop thread was started
start_monitoring_outcome(regions) ==
    IF monitoring THEN "refused"
    ELSE IF ~regions.given THEN "TypeError"
    ELSE "started"

start_monitoring(regions) ==
    IF monitoring
    THEN UNCHANGED <<monitoring, monitoring_regions>>
    ELSE /\ monitoring_regions' = regions
         /\ monitoring' = TRUE

\* a stop_monitoring that leaves the liveness flag set
stop_monitoring_keeps_flag ==
    UNCHANGED <<monitoring, monitoring_regions>>

\* VisualAnalyzer.stop_monitoring
stop_monitoring ==
    /\ monitoring' = FALSE
    /\ UNCHANGED monitoring_regions

\* --------------------------------------------------------------- orchestrator
\* value_type strings start_workflow is called with ("bogus": not a ValueType)
TypeInputs == {"uint8", "bogus"}

\* ValueType(value_type) with the ValueError fallback to INT_32
value_type_enum(value_type) ==
    IF value_type \in ValueTypes THEN value_type ELSE "int32"

\* error strings of the orchestrator's result dictionaries
ErrAlreadyRunning == "Workflow already running"
ErrMonitoringFailed == "Failed to start visual monitoring"
ErrNoVisualAnalyzer == "Visual analyzer not available"
ErrNoMemoryScanner == "Memory scanner not available"
ErrNotRunning == "Workflow not running"
ErrNoAdapter == "RE tool adapter not set"
ErrNoAddresses == "No addresses to set breakpoints at"

no_scanner_call ==
    /\ UNCHANGED scanner_vars
    /\ scanner_call' = "none"
    /\ mem_reads' = {}
    /\ scan_args' = scan_args
    /\ gen_steps' = gen_steps

\* WorkflowOrchestrator.start_workflow
start_workflow(regions, value_type) ==
    /\ Called("start_workflow")
    /\ no_scanner_call
    /\ UNCHANGED <<mem, available, visual_analyzer, memory_scanner, re_adapter,
                   communication_server, current_scan_addresses, detected_values>>
    /\ IF is_running
       THEN /\ ret' = Ret(FALSE, ErrAlreadyRunning, <<>>)
            /\ UNCHANGED <<is_running, workflow_state, analyzer_vars>>
       ELSE IF ~visual_analyzer
       THEN /\ ret' = Ret(FALSE, ErrNoVisualAnalyzer, <<>>)
            /\ UNCHANGED <<is_running, workflow_state, analyzer_vars>>
       ELSE /\ start_monitoring(regions)
            /\ CASE start_monitoring_outcome(regions) = "refused" ->
                      /\ ret' = Ret(FALSE, ErrMonitoringFailed, <<>>)
                      /\ UNCHANGED <<is_running, workflow_state>>
                 [] start_monitoring_outcome(regions) = "TypeError" ->
                      /\ ret' = Raised("TypeError")
                      /\ UNCHANGED <<is_running, workflow_state>>
                 [] start_monitoring_outcome(regions) = "started" ->
                      IF ~memory_scanner
                      THEN /\ ret' = Ret(FALSE, ErrNoMemoryScanner, <<>>)
                           /\ workflow_state' =
                                 [workflow_state EXCEPT !.visual_monitoring = TRUE]
                           /\ UNCHANGED is_running
                      ELSE /\ ret' = Ret(TRUE, "", <<>>)
                           /\ workflow_state' =
                                 [workflow_state EXCEPT !.visual_monitoring = TRUE,
                                                        !.value_type = value_type]
                           /\ is_running' = TRUE

\* a stop_workflow that never refuses
stop_workflow_never_refused == FALSE

\* the guard of stop_workflow: `if not self.is_running`
stop_workflow_refused == ~is_running

\* WorkflowOrchestrator.stop_workflow
stop_workflow ==
    /\ Called("stop_workflow")
    /\ UNCHANGED <<mem, available, visual_analyzer, memory_scanner, re_adapter,
                   communication_server>>
    /\ IF stop_workflow_refused
       THEN /\ ret' = Ret(FALSE, ErrNotRunning, <<>>)
            /\ no_scanner_call
            /\ UNCHANGED <<is_running, current_scan_addresses, detected_values,
                           workflow_state, analyzer_vars>>
       ELSE /\ IF visual_analyzer THEN stop_monitoring ELSE UNCHANGED analyzer_vars
            /\ IF memory_scanner THEN clear_scan ELSE no_scanner_call
            /\ workflow_state' =
                  [workflow_state EXCEPT
                      !.visual_monitoring = IF visual_analyzer THEN FALSE ELSE @,
                      !.memory_scanning = IF memory_scanner THEN FALSE ELSE @]
            /\ is_running' = FALSE
            /\ current_scan_addresses' = <<>>
            /\ detected_values' = <<>>
            /\ ret' = Ret(TRUE, "", <<>>)

\* WorkflowOrchestrator._perform_initial_scan
_perform_initial_scan(value) ==
    IF ~memory_scanner
    THEN /\ no_scanner_call
         /\ UNCHANGED <<current_scan_addresses, workflow_state>>
    ELSE LET value_type == value_type_enum(workflow_state.value_type)
             results == InitialScanResults(value, value_type)
         IN  /\ initial_scan(value, value_type, "exact")
             /\ current_scan_addresses' = results
             /\ workflow_state' =
                   IF results # <<>>
                   THEN [workflow_state EXCEPT !.memory_scanning = TRUE,
                                               !.current_addresses = results]
                   ELSE workflow_state

\* "few addresses remaining": the bound of the log line in _perform_filter_scan
FewAddresses == 5

\* a filter step that sets the breakpoint flag itself once few addresses remain
filter_scan_state_auto_breakpoints(results) ==
    IF results # <<>>
    THEN [workflow_state EXCEPT !.current_addresses = results,
                                !.breakpoints_set = @ \/ Len(results) <= FewAddresses]
    ELSE workflow_state

\* workflow_state after a filter scan returned `results`: the address list is
\* stored when it is not empty; few remaining addresses are only logged
filter_scan_state(results) ==
    IF results # <<>>
    THEN [workflow_state EXCEPT !.current_addresses = results]
    ELSE workflow_state

\* WorkflowOrchestrator._perform_filter_scan
_perform_filter_scan(value) ==
    IF ~memory_scanner \/ current_scan_addresses = <<>>
    THEN /\ no_scanner_call
         /\ UNCHANGED <<current_scan_addresses, workflow_state>>
    ELSE LET value_type == value_type_enum(workflow_state.value_type)
             results == FilterScanResults(value, value_type)
         IN  /\ filter_scan(value, value_type, "exact")
             /\ current_scan_addresses' = results
             /\ workflow_state' = filter_scan_state(results)

\* the branch test with its sense inverted
scan_branch_inverted(addresses) == addresses # <<>>

\* the branch of _handle_visual_change: initial scan iff no current addresses

scan_branch_is_initial(addresses) == addresses = <<>>

\* WorkflowOrchestrator._handle_visual_change, called by the communication
\* server for a visual_change message whose payload carries `value`
_handle_visual_change(value) ==
    /\ communication_server
    /\ Len(detected_values) < MaxLog
    /\ Called("handle_visual_change")
    /\ ret' = NoRet
    /\ UNCHANGED <<mem, available, visual_analyzer, memory_scanner, re_adapter,
                   communication_server, is_running, analyzer_vars>>
    /\ IF ~is_running
       THEN /\ no_scanner_call
            /\ UNCHANGED <<current_scan_addresses, detected_values, workflow_state>>
       ELSE /\ detected_values' = Append(detected_values, value)
            /\ IF scan_branch_is_initial(current_scan_addresses)
               THEN _perform_initial_scan(value)
               ELSE _perform_filter_scan(value)

\* address lists a scan_result message can carry
AddressLists == {<<>>, <<1>>, SetToSeq(Addr)}

\* WorkflowOrchestrator._handle_scan_result
_handle_scan_result(addresses) ==
    /\ communication_server
    /\ Called("handle_scan_result")
    /\ ret' = NoRet
    /\ no_scanner_call
    /\ current_scan_addresses' = addresses
    /\ workflow_state' = [workflow_state EXCEPT !.current_addresses = addresses]
    /\ UNCHANGED <<mem, available, visual_analyzer, memory_scanner, re_adapter,
                   communication_server, is_running, detected_values, analyzer_vars>>

\* a set_breakpoints that does not check for an empty address list
set_breakpoints_outcome_unchecked(addrs) ==
    IF ~re_adapter THEN ErrNoAdapter ELSE ""

\* the checks of set_breakpoints, in the code's order: the error string, or ""
set_breakpoints_outcome(addrs) ==
    IF ~re_adapter THEN ErrNoAdapter
    ELSE IF addrs = <<>> THEN ErrNoAddresses
    ELSE ""

\* WorkflowOrchestrator.set_breakpoints; `addresses` is None or Some(list)
set_breakpoints(addresses) ==
    LET addrs == IF addresses = None THEN current_scan_addresses ELSE addresses[1]
    IN  /\ Called("set_breakpoints")
        /\ no_scanner_call
        /\ UNCHANGED <<mem, available, visual_analyzer, memory_scanner, re_adapter,
                       communication_server, is_running, current_scan_addresses,
                       detected_values, analyzer_vars>>
        /\ IF set_breakpoints_outcome(addrs) # ""
           THEN /\ ret' = Ret(FALSE, set_breakpoints_outcome(addrs), <<>>)
                /\ UNCHANGED workflow_state
           ELSE /\ ret' = Ret(TRUE, "", addrs)
                /\ workflow_state' = [workflow_state EXCEPT !.breakpoints_set = TRUE]

\* the dictionary get_workflow_status builds; communication_server is
\* assigned before the server is started, so it is never None afterwards
WorkflowStatus ==
    [is_running |-> is_running,
     state |-> workflow_state,
     detected_values_count |-> Len(detected_values),
     current_addresses_count |-> Len(current_scan_addresses),
     components |-> [visual_analyzer |-> visual_analyzer,
                     memory_scanner |-> memory_scanner,
                     re_adapter |-> re_adapter,
                     communication_server |-> TRUE]]

\* a status call that drains the detected-value log it reports
get_workflow_status_draining ==
    /\ Called("get_workflow_status")
    /\ ret' = [Ret(TRUE, "", <<>>) EXCEPT !.status = <<WorkflowStatus>>]
    /\ no_scanner_call
    /\ detected_values' = <<>>
    /\ UNCHANGED <<mem, available, visual_analyzer, memory_scanner, re_adapter,
                   communication_server, is_running, current_scan_addresses,
                   workflow_state, analyzer_vars>>

\* WorkflowOrchestrator.get_workflow_status
get_workflow_status ==
    /\ Called("get_workflow_status")
    /\ ret' = [Ret(TRUE, "", <<>>) EXCEPT !.status = <<WorkflowStatus>>]
    /\ no_scanner_call
    /\ UNCHANGED <<mem, available, orch_vars, analyzer_vars>>

\* the protocol layer attaches its RE-tool adapter (orchestrator.re_adapter = ...)
attach_adapter ==
    /\ ~re_adapter
    /\ re_adapter' = TRUE
    /\ Called("attach_adapter")
    /\ ret' = NoRet
    /\ no_scanner_call
    /\ UNCHANGED <<mem, available, visual_analyzer, memory_scanner,
                   communication_server, is_running, current_scan_addresses,
                   detected_values, workflow_state, analyzer_vars>>

\* preferred backends the orchestrator can be constructed with
PreferredInputs == {None, Some("x64dbg"), Some("cheat_engine"), Some("custom")}

\* WorkflowOrchestrator.__init__ and _initialize_components
Init ==
    /\ mem \in [Addr -> Byte]
    /\ available \in SUBSET {"x64dbg", "custom"}
    /\ \E preferred \in PreferredInputs : backend = create_scanner(preferred, available)
    /\ memory_scanner = (backend # "none")
    /\ is_connected = (backend # "none")
    /\ process_handle = (backend = "custom")
    /\ current_scan_results = <<>>
    /\ scan_count = 0
    /\ visual_analyzer \in BOOLEAN
    /\ re_adapter = FALSE
    /\ communication_server \in BOOLEAN
    /\ is_running = FALSE
    /\ current_scan_addresses = <<>>
    /\ detected_values = <<>>
    /\ workflow_state = InitWorkflowState
    /\ monitoring = FALSE /\ monitoring_regions = NoRegions
    /\ op = "init" /\ scanner_call = "none" /\ mem_reads = {} /\ ret = NoRet
    /\ scan_args = NoArgs
    /\ gen_steps = 0
    /\ prev_call = "none"
    /\ NoHandlers
    /\ NoConnection
    /\ NoClient
    /\ NoVision

Next ==
    \/ \E r \in RegionInputs, t \in TypeInputs :
          start_workflow(r, t) /\ UNCHANGED vision_vars
    \/ stop_workflow /\ UNCHANGED vision_vars
    \/ \E v \in MsgValues : _handle_visual_change(v) /\ UNCHANGED vision_vars
    \/ \E l \in AddressLists : _handle_scan_result(l) /\ UNCHANGED vision_vars
    \/ \E l \in {None, Some(<<>>), Some(<<1>>)} :
          set_breakpoints(l) /\ UNCHANGED vision_vars
    \/ get_workflow_status /\ UNCHANGED vision_vars
    \/ attach_adapter /\ UNCHANGED vision_vars
    \/ \E a \in Addr, b \in Byte : MemWrite(a, b) /\ UNCHANGED vision_vars

Spec == Init /\ [][Next]_vars

\* ------------------------------------------------------------ message codec
\* A Python value is a record [k |-> kind, v |-> text]: a MessageType member
\* ("enum"), a str, None, or a dict (v names its content).  A JSON value is
\* a record of the same shape with the kinds "string", "null", "object".
PyVal(k, v) == [k |-> k, v |-> v]
PyNone == PyVal("none", "")

\* the values of the MessageType enum
MessageTypeValues ==
    {"visual_change", "value_extracted", "scan_request", "scan_result",
     "filter_request", "filter_result", "breakpoint_set", "breakpoint_hit",
     "decompile_request", "decompile_result", "ping", "pong", "error", "status"}

\* the fields of the Message dataclass, in declaration order
FieldNames == <<"message_type", "payload", "timestamp", "source", "message_id">>

\* Message(...) as a record of Python values
Message(message_type, payload, timestamp, source, message_id) ==
    [message_type |-> message_type, payload |-> payload, timestamp |-> timestamp,
     source |-> source, message_id |-> message_id]

\* datetime.utcnow().isoformat() at the moment __post_init__ runs in a decode
Now == PyVal("str", "t1")

\* JSON text of a dict's content: JSON has no tuple, json.dumps writes a
\* tuple as an array
ObjectText(content) ==
    IF content = "coordinates=(1,2)" THEN "coordinates=[1,2]" ELSE content

\* dict contents made of JSON's own types only (str keys; str, number,
\* bool, None, list and dict values)
JsonNative(content) == content # "coordinates=(1,2)"

\* json.dumps(value, default=str) of one field value
json_dumps(value) ==
    CASE value.k = "enum" -> PyVal("string", value.v)
      [] value.k = "str" -> PyVal("string", value.v)
      [] value.k = "none" -> PyVal("null", "")
      [] value.k = "dict" -> PyVal("object", ObjectText(value.v))

\* json.loads of one field value
json_loads(text) ==
    CASE text.k = "string" -> PyVal("str", text.v)
      [] text.k = "null" -> PyNone
      [] text.k = "object" -> PyVal("dict", text.v)

\* one byte-run of a frame: the JSON text of one key and its value
Field(name, text) == [f |-> name, k |-> text.k, v |-> text.v]
\* the delimiter b"\n"
Newline == [f |-> "newline", k |-> "", v |-> ""]
\* bytes that are not JSON
Garbage == [f |-> "garbage", k |-> "", v |-> ""]

\* a to_json that leaves the source out of the object
to_json_without_source(message) ==
    [i \in 1..3 |-> Field(FieldNames[i], json_dumps(message[FieldNames[i]]))]

\* Message.to_json: json.dumps(asdict(self), default=str)
to_json(message) ==
    [i \in 1..Len(FieldNames) |->
        Field(FieldNames[i], json_dumps(message[FieldNames[i]]))]

\* MessageCodec.encode: the UTF-8 bytes of to_json
encode(message) == to_json(message)

\* outcome of a decode: the Message, or an exception (ok = FALSE)
Decoded(message) == [ok |-> TRUE, message |-> message]
DecodeError == [ok |-> FALSE, message |-> Message(PyNone, PyNone, PyNone, PyNone, PyNone)]

\* Message.from_json: json.loads, MessageType(...) when the type is a string,
\* cls(**data); an exception when the text is not a JSON object, a key is
\* not a field, a required field is missing or the type string is unknown
from_json(json_str) ==
    LET names == {json_str[i].f : i \in 1..Len(json_str)}
        Get(name) ==
            IF name \in names
            THEN json_loads(json_str[CHOOSE i \in 1..Len(json_str) : json_str[i].f = name])
            ELSE PyNone
        message_type == Get("message_type")
    IN  IF json_str = <<>> \/ ~(names \subseteq Range(FieldNames))
        THEN DecodeError
        ELSE IF ~({"message_type", "payload"} \subseteq names)
        THEN DecodeError
        ELSE IF message_type.k = "str" /\ message_type.v \notin MessageTypeValues
        THEN DecodeError
        ELSE Decoded(Message(
                IF message_type.k = "str" THEN PyVal("enum", message_type.v)
                                          ELSE message_type,
                Get("payload"),
                IF Get("timestamp") = PyNone THEN Now ELSE Get("timestamp"),
                Get("source"),
                Get("message_id")))

\* MessageCodec.decode
decode(data) == from_json(data)

\* ------------------------------------------------------- component server
\* handlers the orchestrator registers before it starts the server
message_handlers == {"visual_change", "scan_result"}

\* the queue and the handler log as one value
Inbox(queue, log) == [message_queue |-> queue, handled |-> log]

\* a _handle_message that rejects a message without a registered handler
_handle_message_rejecting(message, inbox) ==
    IF message.message_type.k = "enum" /\ message.message_type.v \in message_handlers
    THEN Inbox(Append(inbox.message_queue, message), Append(inbox.handled, message))
    ELSE inbox

\* ComponentServer._handle_message: the message is queued, then passed to
\* the handler registered for message_type.value, if any; a message_type
\* that is not an enum member raises AttributeError after the put
_handle_message(message, inbox) ==
    Inbox(Append(inbox.message_queue, message),
          IF message.message_type.k = "enum" /\ message.message_type.v \in message_handlers
          THEN Append(inbox.handled, message)
          ELSE inbox.handled)

\* a frame test that takes whatever is buffered as a frame
HasAnyBytes(buf) == buf # <<>>

\* `while b"\n" in buffer`
HasCompleteFrame(buf) == Newline \in Range(buf)

\* index of the first delimiter (one past the end when there is none)
LineEnd(buf) ==
    IF Newline \in Range(buf)
    THEN CHOOSE i \in 1..Len(buf) :
            buf[i] = Newline /\ \A j \in 1..(i - 1) : buf[j] # Newline
    ELSE Len(buf) + 1

\* the inner loop of _handle_connection: split off each complete line, decode
\* it and hand it to _handle_message; an empty line is skipped, an exception
\* of decode or _handle_message is logged and the loop goes on
RECURSIVE ParseLines(_, _)
ParseLines(buf, inbox) ==
    IF ~HasCompleteFrame(buf) THEN [buffer |-> buf, inbox |-> inbox]
    ELSE LET n == LineEnd(buf)
             line == SubSeq(buf, 1, n - 1)
             rest == SubSeq(buf, n + 1, Len(buf))
         IN  ParseLines(rest,
                 IF line # <<>> /\ decode(line).ok
                 THEN _handle_message(decode(line).message, inbox)
                 ELSE inbox)

\* bookkeeping of a step of the connection: nothing of the orchestrator, the
\* scanner, the analyzer or the target changes
ConnectionStep(name) ==
    /\ op' = name
    /\ prev_call' = "none"
    /\ UNCHANGED <<mem, available, scanner_vars, orch_vars, analyzer_vars,
                   scanner_call, mem_reads, ret, scan_args, gen_steps,
                   replies, client_vars, vision_vars, handler_vars>>

\* Message objects a component sends
PayloadInputs == {PyVal("dict", "value=1"), PyVal("dict", "coordinates=(1,2)")}
MessageInputs ==
    {Message(PyVal("enum", t), p, PyVal("str", "t0"), s, PyNone) :
        t \in {"visual_change", "ping"},
        p \in PayloadInputs,
        s \in {PyNone, PyVal("str", "visual_analyzer")}}
    \cup {Message(PyVal("enum", "ping"), PyVal("dict", "value=1"), PyVal("str", "t0"),
                  PyVal("str", "re_tool"), PyVal("str", "m1"))}

\* frames a peer can write that no send_message produces: bytes that are not
\* JSON, an empty line, an object whose type string is not a MessageType
\* value, and an object whose type is null
RawFrames ==
    {<<Garbage>>,
     <<>>,
     <<Field("message_type", PyVal("string", "bogus")),
       Field("payload", PyVal("object", "value=1"))>>,
     <<Field("message_type", PyVal("null", "")),
       Field("payload", PyVal("object", "value=1"))>>}

\* what the peer wrote: a frame, with the Message it encodes when it came
\* from send_message
SentMessage(message) == [frame |-> encode(message), message |-> <<message>>]
SentRaw(frame) == [frame |-> frame, message |-> <<>>]

\* ComponentClient.send_message on a connected client:
\* sendall(MessageCodec.encode(message) + b"\n")
send_message(message) ==
    /\ conn_open
    /\ Len(sent) < MaxSent
    /\ wire' = wire \o encode(message) \o <<Newline>>
    /\ sent' = Append(sent, SentMessage(message))
    /\ UNCHANGED <<conn_open, buffer, message_queue, handled>>
    /\ ConnectionStep("send_message")

\* a peer that writes a newline-terminated frame of its own making
PeerWrite(frame) ==
    /\ conn_open
    /\ Len(sent) < MaxSent
    /\ wire' = wire \o frame \o <<Newline>>
    /\ sent' = Append(sent, SentRaw(frame))
    /\ UNCHANGED <<conn_open, buffer, message_queue, handled>>
    /\ ConnectionStep("peer_write")

\* one iteration of the outer loop of _handle_connection: recv returns the
\* next k bytes, they are appended to buffer and the complete lines handled
_handle_connection(k) ==
    /\ conn_open
    /\ k \in 1..Len(wire)
    /\ LET data == SubSeq(wire, 1, k)
           parsed == ParseLines(buffer \o data, Inbox(message_queue, handled))
       IN  /\ wire' = SubSeq(wire, k + 1, Len(wire))
           /\ buffer' = parsed.buffer
           /\ message_queue' = parsed.inbox.message_queue
           /\ handled' = parsed.inbox.handled
    /\ UNCHANGED <<conn_open, sent>>
    /\ ConnectionStep("recv")

\* the peer closes: recv returns b"", the loop ends, the connection is
\* closed and the local buffer is gone
PeerClose ==
    /\ conn_open
    /\ wire = <<>>
    /\ conn_open' = FALSE
    /\ buffer' = <<>>
    /\ UNCHANGED <<sent, wire, message_queue, handled>>
    /\ ConnectionStep("peer_close")

\* a started server that has accepted one connection
InitServer ==
    /\ mem = [a \in Addr |-> 0]
    /\ available = {}
    /\ backend = "none"
    /\ is_connected = FALSE
    /\ process_handle = FALSE
    /\ current_scan_results = <<>>
    /\ scan_count = 0
    /\ visual_analyzer = FALSE /\ memory_scanner = FALSE /\ re_adapter = FALSE
    /\ communication_server = TRUE /\ is_running = FALSE
    /\ current_scan_addresses = <<>> /\ detected_values = <<>>
    /\ workflow_state = InitWorkflowState
    /\ monitoring = FALSE /\ monitoring_regions = NoRegions
    /\ op = "init" /\ scanner_call = "none" /\ mem_reads = {} /\ ret = NoRet
    /\ scan_args = NoArgs
    /\ gen_steps = 0
    /\ prev_call = "none"
    /\ NoHandlers
    /\ conn_open = TRUE
    /\ sent = <<>> /\ wire = <<>>
    /\ buffer = <<>> /\ message_queue = <<>> /\ handled = <<>>
    /\ replies = <<>>
    /\ NoClient
    /\ NoVision

NextServer ==
    \/ \E m \in MessageInputs : send_message(m)
    \/ \E f \in RawFrames : PeerWrite(f)
    \/ \E k \in 1..(MaxSent * (Len(FieldNames) + 1)) : _handle_connection(k)
    \/ PeerClose

SpecServer == InitServer /\ [][NextServer]_vars

\* the connection thread keeps running: bytes that arrived are eventually read
SpecServerFair ==
    SpecServer /\ WF_vars(\E k \in 1..(MaxSent * (Len(FieldNames) + 1)) : _handle_connection(k))

\* ------------------------------------------------------- component client
\* bookkeeping of a step of the client or of its network: nothing of the
\* orchestrator, the scanner, the analyzer, the target or the server changes
ClientStep(name) ==
    /\ op' = name
    /\ prev_call' = "none"
    /\ UNCHANGED <<mem, available, scanner_vars, orch_vars, analyzer_vars,
                   scanner_call, mem_reads, scan_args, gen_steps,
                   comm_vars, vision_vars, handler_vars>>

\* ComponentClient.connect: a new socket replaces self.socket, then
\* socket.connect; True with connected set when a server accepts, False with
\* connected cleared (the unconnected socket stays in self.socket) otherwise
connect_succeeds == listening

ComponentClient_connect ==
    /\ client_socket' = TRUE
    /\ client_connected' = connect_succeeds
    /\ link_alive' = connect_succeeds
    /\ connect_attempts' = 0
    /\ ret' = Ret(connect_succeeds, "", <<>>)
    /\ UNCHANGED <<listening, delivered>>
    /\ ClientStep("client_connect")

\* ComponentClient.disconnect
ComponentClient_disconnect ==
    /\ client_socket' = FALSE
    /\ client_connected' = FALSE
    /\ link_alive' = FALSE
    /\ connect_attempts' = 0
    /\ ret' = NoRet
    /\ UNCHANGED <<listening, delivered>>
    /\ ClientStep("client_disconnect")

\* messages a component sends through its client
ClientMessages ==
    {Message(PyVal("enum", t), PyVal("dict", "value=1"), PyVal("str", "t0"),
             PyVal("str", "visual_analyzer"), PyNone) : t \in {"visual_change", "ping"}}

\* `if not self.connected or not self.socket`
must_connect == ~client_connected \/ ~client_socket

\* ComponentClient.send_message.  When the client does not hold a connection
\* it calls connect() once and returns False if that fails.  Then
\* sendall(data + b"\n"): on a live connection the frame is written; on a
\* connection the peer has dropped sendall either raises (connected is
\* cleared, False is returned, no connect is made in this call) or still
\* accepts the bytes into the local send buffer (True is returned).
ComponentClient_send_message(message, raises) ==
    /\ Len(delivered) < MaxSent
    /\ connect_attempts' = IF must_connect THEN 1 ELSE 0
    /\ IF must_connect /\ ~connect_succeeds
       THEN /\ client_socket' = TRUE
            /\ client_connected' = FALSE
            /\ link_alive' = FALSE
            /\ delivered' = delivered
            /\ ret' = Ret(FALSE, "", <<>>)
       ELSE IF must_connect \/ link_alive
       THEN /\ client_socket' = TRUE
            /\ client_connected' = TRUE
            /\ link_alive' = TRUE
            /\ delivered' = Append(delivered, encode(message))
            /\ ret' = Ret(TRUE, "", <<>>)
       ELSE /\ client_connected' = ~raises
            /\ ret' = Ret(~raises, "", <<>>)
            /\ UNCHANGED <<client_socket, link_alive, delivered>>
    /\ UNCHANGED listening
    /\ ClientStep("client_send_message")

\* the peer closes the connection or the network drops it
LinkDrop ==
    /\ link_alive
    /\ link_alive' = FALSE
    /\ UNCHANGED <<client_connected, client_socket, listening, connect_attempts,
                   delivered, ret>>
    /\ ClientStep("link_drop")

\* the server at (host, port) starts or stops listening
ServerToggle ==
    /\ listening' = ~listening
    /\ UNCHANGED <<client_connected, client_socket, link_alive, connect_attempts,
                   delivered, ret>>
    /\ ClientStep("server_toggle")

\* a client that was constructed and never used; a server may be listening
InitClient ==
    /\ mem = [a \in Addr |-> 0]
    /\ available = {}
    /\ backend = "none"
    /\ is_connected = FALSE
    /\ process_handle = FALSE
    /\ current_scan_results = <<>>
    /\ scan_count = 0
    /\ visual_analyzer = FALSE /\ memory_scanner = FALSE /\ re_adapter = FALSE
    /\ communication_server = FALSE /\ is_running = FALSE
    /\ current_scan_addresses = <<>> /\ detected_values = <<>>
    /\ workflow_state = InitWorkflowState
    /\ monitoring = FALSE /\ monitoring_regions = NoRegions
    /\ op = "init" /\ scanner_call = "none" /\ mem_reads = {} /\ ret = NoRet
    /\ scan_args = NoArgs
    /\ gen_steps = 0
    /\ prev_call = "none"
    /\ NoHandlers
    /\ NoConnection
    /\ client_connected = FALSE /\ client_socket = FALSE
    /\ listening \in BOOLEAN /\ link_alive = FALSE
    /\ connect_attempts = 0 /\ delivered = <<>>
    /\ NoVision

NextClient ==
    \/ ComponentClient_connect
    \/ ComponentClient_disconnect
    \/ \E m \in ClientMessages, raises \in BOOLEAN : ComponentClient_send_message(m, raises)
    \/ LinkDrop
    \/ ServerToggle

SpecClient == InitClient /\ [][NextClient]_vars

\* ----------------------------------------------------------- change detector
\* Frames are 100 x 100 grayscale images: a black background and rectangles
\* of one gray level each, which neither overlap nor touch.  A rectangle is
\* <<x, y, w, h>>.
FrameWidth == 100
FrameHeight == 100
Rects ==
    [sq20 |-> <<10, 10, 20, 20>>,     \* 400 pixels, 4% of the frame
     dot  |-> <<40, 40, 5, 5>>,       \* 25 pixels
     band |-> <<0, 90, 100, 10>>]     \* 1000 pixels, exactly 10% of the frame
RectNames == DOMAIN Rects
Black == 0
White == 255
RectLevels ==
    [sq20 |-> {Black, 30, White}, dot |-> {Black, White}, band |-> {Black, White}]
Frames == {f \in [RectNames -> {Black, 30, White}] : \A r \in RectNames : f[r] \in RectLevels[r]}
BlackFrame == [r \in RectNames |-> Black]

\* the frames an Optional[np.ndarray] argument can be: None or a frame
OptionalFrames == {None} \cup {Some(f) : f \in Frames}

\* cv2.absdiff of two gray levels
absdiff(a, b) == IF a >= b THEN a - b ELSE b - a

\* cv2.threshold(diff, 30, 255, THRESH_BINARY): the rectangles whose pixels
\* are set in the binary image, those whose difference is above 30
binarize(gray_current, gray_previous) ==
    {r \in RectNames : absdiff(gray_current[r], gray_previous[r]) > 30}

RECURSIVE SumOver(_, _)
SumOver(set, weight) ==
    IF set = {} THEN 0
    ELSE LET r == CHOOSE r \in set : TRUE
         IN  weight[r] + SumOver(set \ {r}, weight)

\* thresh.size and np.sum(thresh > 0)
total_pixels == FrameWidth * FrameHeight
PixelCount == [r \in RectNames |-> Rects[r][3] * Rects[r][4]]
changed_pixels(thresh) == SumOver(thresh, PixelCount)

\* cv2.contourArea of the outer contour of a filled w x h rectangle: the
\* polygon through the centres of its corner pixels
contourArea(rect) == (rect[3] - 1) * (rect[4] - 1)

\* cv2.boundingRect of that contour
boundingRect(rect) == rect

\* a floor as large as the bounding box of the 20 x 20 square
min_change_area_of_square == Rects.sq20[3] * Rects.sq20[4]

\* ChangeDetector.min_change_area (constructor default)
min_change_area == 100

\* `if area >= self.min_change_area`
keeps_contour(rect) == contourArea(rect) >= min_change_area

\* a comparison that reports a change at the threshold already
exceeds_or_reaches(pixels, thr) == pixels * 100 >= thr * total_pixels

\* `change_percentage > self.threshold`, the threshold given in percent
exceeds(pixels, thr) == pixels * 100 > thr * total_pixels

\* what a detect_changes call returned, together with the frames of the call:
\* current, whether a previous frame was passed, the frame that current was
\* compared with (none for a first frame), changed, np.sum(thresh > 0)
\* (change_percentage = changed_pixels / total_pixels) and changed_regions
DetectResult(current, explicit, compared, changed, pixels, regions) ==
    [current |-> current, explicit |-> explicit, compared |-> compared,
     changed |-> changed, changed_pixels |-> pixels, changed_regions |-> regions]

\* a first-frame test that looks at the argument only
is_first_frame_by_argument(previous, stored) == previous = None

\* lines 66-69: previous_frame falls back to the stored frame, and only
\* when that is None too the call is a first frame
is_first_frame(previous, stored) == previous = None /\ stored = None

\* the dictionary ChangeDetector.detect_changes returns for current_frame,
\* the previous_frame argument, the stored frame and the threshold
detect_outcome(current_frame, previous, stored, thr) ==
    IF is_first_frame(previous, stored)
    THEN DetectResult(current_frame, previous # None, None, FALSE, 0, {})
    ELSE LET compared == IF previous # None THEN previous[1] ELSE stored[1]
             thresh == binarize(current_frame, compared)
             pixels == changed_pixels(thresh)
             changed_regions ==
                 IF exceeds(pixels, thr)
                 THEN {boundingRect(Rects[r]) : r \in {c \in thresh : keeps_contour(Rects[c])}}
                 ELSE {}
         IN  DetectResult(current_frame, previous # None, Some(compared),
                          exceeds(pixels, thr), pixels, changed_regions)

\* bookkeeping of a step of the detector: nothing else changes
DetectorStep(name) ==
    /\ op' = name
    /\ prev_call' = "none"
    /\ UNCHANGED <<mem, available, scanner_vars, orch_vars, analyzer_vars,
                   scanner_call, mem_reads, ret, scan_args, gen_steps,
                   comm_vars, client_vars, screen, threads, monitoring_thread,
                   stopping, detected_changes, detects_since_start, sampled,
                   handler_vars>>

\* a detector that keeps its old baseline when nothing changed
stored_after_detect_lazy(current_frame, result) ==
    IF result.changed \/ previous_frame = None THEN Some(current_frame) ELSE previous_frame

\* `self.previous_frame = current_frame.copy()` on both paths
stored_after_detect(current_frame, result) == Some(current_frame)

\* ChangeDetector.detect_changes(current_frame, previous_frame)
detect_changes(current_frame, previous) ==
    LET result == detect_outcome(current_frame, previous, previous_frame, threshold)
    IN  /\ detect_result' = Some(result)
        /\ previous_frame' = stored_after_detect(current_frame, result)
        /\ UNCHANGED threshold
        /\ DetectorStep("detect_changes")

\* ChangeDetector.reset
reset ==
    /\ previous_frame' = None
    /\ UNCHANGED <<threshold, detect_result>>
    /\ DetectorStep("reset")

\* thresholds a detector is given, in percent: the constructor default 0.1,
\* and 0.01
ThresholdInputs == {10, 1}

\* `change_detector.threshold = change_threshold`
set_threshold(thr) ==
    /\ threshold # thr
    /\ threshold' = thr
    /\ UNCHANGED <<previous_frame, detect_result>>
    /\ DetectorStep("set_threshold")

\* ChangeDetector.__init__ with the default threshold
InitDetector ==
    /\ mem = [a \in Addr |-> 0]
    /\ available = {}
    /\ backend = "none"
    /\ is_connected = FALSE
    /\ process_handle = FALSE
    /\ current_scan_results = <<>>
    /\ scan_count = 0
    /\ visual_analyzer = TRUE /\ memory_scanner = FALSE /\ re_adapter = FALSE
    /\ communication_server = FALSE /\ is_running = FALSE
    /\ current_scan_addresses = <<>> /\ detected_values = <<>>
    /\ workflow_state = InitWorkflowState
    /\ monitoring = FALSE /\ monitoring_regions = NoRegions
    /\ op = "init" /\ scanner_call = "none" /\ mem_reads = {} /\ ret = NoRet
    /\ scan_args = NoArgs
    /\ gen_steps = 0
    /\ prev_call = "none"
    /\ NoHandlers
    /\ NoConnection
    /\ NoClient
    /\ NoVision

NextDetector ==
    \/ \E f \in Frames, p \in OptionalFrames : detect_changes(f, p)
    \/ reset
    \/ \E thr \in ThresholdInputs : set_threshold(thr)

SpecDetector == InitDetector /\ [][NextDetector]_vars

\* ------------------------------------------- the analyzer's monitoring loop
\* The orchestrator with its visual analyzer: start_workflow starts a loop
\* thread, stop_workflow clears the flag, waits in join(timeout=2.0) and
\* resets the detector.  A loop thread is at its `while self.monitoring` test
\* (0), about to analyze the i-th region of its list (i), or has ended (-1).

\* the regions on the screen and what a capture of one can show: nothing, or
\* a value drawn in white (the square and the band, 14% of the frame)
ScreenRegions == {"r1", "r2"}
ValueFrame == [BlackFrame EXCEPT !.sq20 = White, !.band = White]
ScreenFrames == {BlackFrame, ValueFrame}

\* the list a loop thread iterates over (the only list in RegionInputs)
MonitoredList == <<"r1", "r2">>

\* VisualAnalyzer.max_changes_history (100 in the source, scaled down)
max_changes_history == MaxHistory

\* ValueExtractor.extract_value: the value read from the frame, None when
\* the frame shows nothing to read
extract_value(frame) == IF frame = BlackFrame THEN None ELSE Some("1")

\* bookkeeping of a step of a loop thread or of the screen
AnalyzerStep(name) ==
    /\ op' = name
    /\ prev_call' = "none"
    /\ ret' = ret
    /\ UNCHANGED <<mem, available, orch_vars, monitoring_regions, comm_vars, client_vars,
                   threshold, handler_vars>>

\* start_workflow with the thread start_monitoring creates (lines 105-106)
Workflow_start(regions, value_type) ==
    LET starts == ~is_running /\ visual_analyzer /\ ~monitoring
    IN  /\ ~stopping
        /\ starts => Len(threads) < MaxLoops
        /\ start_workflow(regions, value_type)
        /\ IF starts
           THEN /\ threads' = Append(threads, 0)
                /\ monitoring_thread' = Len(threads) + 1
                /\ detects_since_start' = 0
           ELSE UNCHANGED <<threads, monitoring_thread, detects_since_start>>
        /\ UNCHANGED <<threshold, previous_frame, detect_result, screen, stopping,
                       detected_changes, sampled>>

\* stop_workflow up to the join: stop_monitoring has cleared the flag and
\* waits for the loop thread
Workflow_stop_begin ==
    /\ is_running /\ visual_analyzer /\ ~stopping
    /\ monitoring' = FALSE
    /\ stopping' = TRUE
    /\ UNCHANGED <<scanner_vars, scanner_call, mem_reads, scan_args, gen_steps,
                   previous_frame, detect_result, screen, threads, monitoring_thread,
                   detected_changes, detects_since_start, sampled>>
    /\ AnalyzerStep("stop_monitoring")

\* monitoring_thread.join(timeout=2.0) returns when the thread has ended or
\* when two seconds have passed
join_returns(timed_out) == threads[monitoring_thread] = -1 \/ timed_out

\* the rest of stop_workflow: the join returned, change_detector.reset(),
\* then the scanner is cleared and the workflow state reset
Workflow_stop_end(timed_out) ==
    /\ stopping
    /\ join_returns(timed_out)
    /\ stop_workflow
    /\ previous_frame' = None
    /\ stopping' = FALSE
    /\ UNCHANGED <<threshold, detect_result, screen, threads, monitoring_thread,
                   detected_changes, detects_since_start, sampled>>

\* stop_workflow on a workflow that is not running
Workflow_stop_refused ==
    /\ ~is_running /\ ~stopping
    /\ stop_workflow
    /\ UNCHANGED vision_vars

\* monitor_loop at `while self.monitoring`: the thread ends when the flag
\* is clear; `for region in self.monitoring_regions` raises TypeError for
\* None, which is logged, and the loop goes on after the sleep
monitor_loop(t) ==
    /\ t \in 1..Len(threads)
    /\ threads[t] = 0
    /\ threads' = [threads EXCEPT ![t] =
                      IF ~monitoring THEN -1
                      ELSE IF ~monitoring_regions.given \/ monitoring_regions.list = <<>>
                      THEN 0
                      ELSE 1]
    /\ UNCHANGED <<monitoring, scanner_vars, scanner_call, mem_reads, scan_args, gen_steps,
                   previous_frame, detect_result, screen, monitoring_thread, stopping,
                   detected_changes, detects_since_start, sampled>>
    /\ AnalyzerStep("monitor_loop")

\* `if result.get("changed") and callback: callback(result)`: the
\* orchestrator starts the monitoring without a callback, nothing is called
on_change(result) == "none"

\* the entry of detected_changes for a change in a region: analyze_region's
\* result, of which the history keeps the timestamp here (time.time(), as
\* the ordinal of the change among those recorded)
NextStamp(changes) ==
    IF changes = <<>> THEN 1 ELSE changes[Len(changes)].timestamp + 1
Change(changes, region) == [timestamp |-> NextStamp(changes)]

\* a history that refuses the new change when it is full
append_change_keeping_oldest(changes, region) ==
    IF Len(changes) >= max_changes_history THEN changes
    ELSE Append(changes, Change(changes, region))

\* `self.detected_changes.append(result)` and pop(0) above the maximum
append_change(changes, region) ==
    LET appended == Append(changes, Change(changes, region))
    IN  IF Len(appended) > max_changes_history THEN Tail(appended) ELSE appended

\* one pass of the body of the for loop of monitor_loop: analyze_region
\* captures the region and calls detect_changes(frame); a change is appended
\* to detected_changes
analyze_region(t) ==
    /\ t \in 1..Len(threads)
    /\ threads[t] >= 1
    /\ LET region == MonitoredList[threads[t]]
           frame == screen[region]
           result == detect_outcome(frame, None, previous_frame, threshold)
       IN  /\ detect_result' = Some(result)
           /\ previous_frame' = stored_after_detect(frame, result)
           /\ detected_changes' = IF result.changed
                                  THEN append_change(detected_changes, region)
                                  ELSE detected_changes
           /\ scanner_call' = on_change(result)
           /\ sampled' = [region |-> region,
                          frames |-> [sampled.frames EXCEPT ![region] = Some(frame)]]
           /\ result.changed => NextStamp(detected_changes) <= MaxChanges
    /\ threads' = [threads EXCEPT ![t] = IF @ < Len(MonitoredList) THEN @ + 1 ELSE 0]
    /\ detects_since_start' = Min(detects_since_start + 1, 2)
    /\ mem_reads' = {}
    /\ UNCHANGED <<monitoring, scanner_vars, scan_args, gen_steps,
                   screen, monitoring_thread, stopping>>
    /\ AnalyzerStep("analyze_region")

\* what a region of the screen shows changes
ScreenChange(region, frame) ==
    /\ screen[region] # frame
    /\ screen' = [screen EXCEPT ![region] = frame]
    /\ UNCHANGED <<monitoring, scanner_vars, scanner_call, mem_reads, scan_args, gen_steps,
                   previous_frame, detect_result, threads, monitoring_thread, stopping,
                   detected_changes, detects_since_start, sampled>>
    /\ AnalyzerStep("screen_change")

\* an orchestrator constructed with a visual analyzer and the custom scanner
InitAnalyzer ==
    /\ mem = [a \in Addr |-> 0]
    /\ available = {"custom"}
    /\ backend = create_scanner(None, available)
    /\ is_connected = TRUE
    /\ process_handle = TRUE
    /\ current_scan_results = <<>>
    /\ scan_count = 0
    /\ visual_analyzer = TRUE /\ memory_scanner = TRUE /\ re_adapter = FALSE
    /\ communication_server = TRUE /\ is_running = FALSE
    /\ current_scan_addresses = <<>> /\ detected_values = <<>>
    /\ workflow_state = InitWorkflowState
    /\ monitoring = FALSE /\ monitoring_regions = NoRegions
    /\ op = "init" /\ scanner_call = "none" /\ mem_reads = {} /\ ret = NoRet
    /\ scan_args = NoArgs
    /\ gen_steps = 0
    /\ prev_call = "none"
    /\ NoHandlers
    /\ NoConnection
    /\ NoClient
    /\ threshold = 10
    /\ previous_frame = None
    /\ detect_result = None
    /\ screen \in [ScreenRegions -> ScreenFrames]
    /\ threads = <<>>
    /\ monitoring_thread = 0
    /\ stopping = FALSE
    /\ detected_changes = <<>>
    /\ detects_since_start = 0
    /\ sampled = [region |-> "none", frames |-> [r \in ScreenRegions |-> None]]

NextAnalyzer ==
    \/ \E r \in RegionInputs : Workflow_start(r, "uint8")
    \/ Workflow_stop_begin
    \/ \E timed_out \in BOOLEAN : Workflow_stop_end(timed_out)
    \/ Workflow_stop_refused
    \/ \E t \in 1..MaxLoops : monitor_loop(t)
    \/ \E t \in 1..MaxLoops : analyze_region(t)
    \/ \E r \in ScreenRegions, f \in ScreenFrames : ScreenChange(r, f)

SpecAnalyzer == InitAnalyzer /\ [][NextAnalyzer]_vars

\* --------------------------------------- handlers on separate connections
\* ComponentServer._accept_connections starts one thread per connection; each
\* thread calls the registered handler for the messages of its connection.  No
\* lock guards the orchestrator, so the handlers of two connections and the
\* caller of start_workflow / stop_workflow interleave between the statements
\* of _handle_visual_change.
MaxConnections == 2
Connections == 1..MaxConnections

\* a connection thread that is not inside a handler
IdleHandler == [pc |-> "idle", value |-> None]

\* bookkeeping of one step of a connection thread
HandlerStep(name) ==
    /\ op' = name
    /\ prev_call' = "none"
    /\ ret' = NoRet
    /\ UNCHANGED <<mem, available, visual_analyzer, memory_scanner, re_adapter,
                   communication_server, is_running, analyzer_vars, comm_vars,
                   client_vars, vision_vars>>

\* _handle_visual_change up to its branch: the is_running test, the append to
\* the log and the test of current_scan_addresses that selects the scan
HandlerBegin(c, value) ==
    /\ handlers[c].pc = "idle"
    /\ Len(detected_values) < MaxLog
    /\ HandlerStep("handle_visual_change")
    /\ no_scanner_call
    /\ UNCHANGED <<current_scan_addresses, workflow_state>>
    /\ IF ~is_running
       THEN UNCHANGED <<detected_values, handlers>>
       ELSE /\ detected_values' = Append(detected_values, value)
            /\ handlers' =
                  [handlers EXCEPT ![c] =
                      [pc |-> IF scan_branch_is_initial(current_scan_addresses)
                              THEN "initial_scan" ELSE "filter_scan",
                       value |-> value]]

\* the rest of _handle_visual_change: the scan the branch selected, which
\* stores its results in current_scan_addresses and the workflow state
HandlerScan(c) ==
    /\ handlers[c].pc # "idle"
    /\ HandlerStep("perform_scan")
    /\ UNCHANGED detected_values
    /\ IF handlers[c].pc = "initial_scan"
       THEN _perform_initial_scan(handlers[c].value)
       ELSE _perform_filter_scan(handlers[c].value)
    /\ handlers' = [handlers EXCEPT ![c] = IdleHandler]

\* an orchestrator with all its collaborators, the workflow not yet started
\* and every connection thread waiting for a message
InitConcurrent ==
    /\ mem \in [Addr -> Byte]
    /\ available = {"custom"}
    /\ backend = create_scanner(None, available)
    /\ memory_scanner = TRUE
    /\ is_connected = TRUE
    /\ process_handle = TRUE
    /\ current_scan_results = <<>>
    /\ scan_count = 0
    /\ visual_analyzer = TRUE
    /\ re_adapter = FALSE
    /\ communication_server = TRUE
    /\ is_running = FALSE
    /\ current_scan_addresses = <<>>
    /\ detected_values = <<>>
    /\ workflow_state = InitWorkflowState
    /\ monitoring = FALSE /\ monitoring_regions = NoRegions
    /\ op = "init" /\ scanner_call = "none" /\ mem_reads = {} /\ ret = NoRet
    /\ scan_args = NoArgs
    /\ gen_steps = 0
    /\ prev_call = "none"
    /\ handlers = [c \in Connections |-> IdleHandler]
    /\ NoConnection
    /\ NoClient
    /\ NoVision

NextConcurrent ==
    \/ \E t \in TypeInputs :
          /\ start_workflow(Regions(<<"r1", "r2">>), t)
          /\ UNCHANGED vision_vars
    \/ stop_workflow /\ UNCHANGED vision_vars
    \/ \E c \in Connections, v \in MsgValues : HandlerBegin(c, v)
    \/ \E c \in Connections : HandlerScan(c)

SpecConcurrent == InitConcurrent /\ [][NextConcurrent]_vars

\* ======================================================== claims C1 .. C10
Last(s) == s[Len(s)]

\* C1: every filter_scan call leaves a candidate list that is a sub-list of
\* the list before the call: no address is added and the list is no longer.
C1_FilterNeverGrows ==
    [][scanner_call' = "filter_scan" =>
          /\ Range(current_scan_results') \subseteq Range(current_scan_results)
          /\ Len(current_scan_results') <= Len(current_scan_results)
          /\ current_scan_results' =
                SelectSeqBy(current_scan_results, Range(current_scan_results'))]_vars

\* a filter after an initial scan has read candidates, dropped one, kept one
C1_Witness ==
    /\ op = "filter_scan"
    /\ gen_steps >= 2
    /\ scan_args.value_type \in {"int8", "uint8"}
    /\ current_scan_results # <<>>
    /\ mem_reads \ Range(current_scan_results) # {}

\* C2 (as claimed): while the workflow runs and an initial scan has produced
\* candidates (memory_scanning is set), a visual change never runs
\* initial_scan again and only shrinks current_scan_addresses (stated for
\* sessions whose change events all carried a value, at moments when the
\* orchestrator's list is the scanner's own list).
C2_NeverRebuilds ==
    [][(is_running /\ workflow_state.memory_scanning
            /\ op' = "handle_visual_change"
            /\ current_scan_addresses = current_scan_results
            /\ \A i \in 1..Len(detected_values') : detected_values'[i] # None) =>
          /\ scanner_call' # "initial_scan"
          /\ Range(current_scan_addresses') \subseteq Range(current_scan_addresses)]_vars

\* C3: a visual change that carries a value, received while running, calls
\* initial_scan when there are no current addresses and filter_scan
\* otherwise, and nothing else.
C3_ScanOrFilter ==
    [][(is_running /\ op' = "handle_visual_change"
            /\ Len(detected_values') = Len(detected_values) + 1
            /\ Last(detected_values') # None) =>
          scanner_call' = IF current_scan_addresses = <<>>
                          THEN "initial_scan" ELSE "filter_scan"]_vars

\* two value-carrying changes were handled in one session, the first by an
\* initial scan and the latest by a filter
C3_Witness ==
    /\ op = "handle_visual_change"
    /\ is_running
    /\ Len(detected_values) >= 2
    /\ \A i \in 1..Len(detected_values) : detected_values[i] # None
    /\ workflow_state.memory_scanning
    /\ scanner_call = "filter_scan"

\* C4 (as claimed): scan_count equals the number of scan-or-filter steps
\* since the last reset (gen_steps counts them up to MaxSteps).
C4_GenerationCounts ==
    gen_steps < MaxSteps => scan_count = gen_steps

ScanSessionStatus ==
    IF current_scan_results # <<>>
    THEN IF scan_count <= 1 THEN "HasCandidates" ELSE "Narrowed"
    ELSE IF scan_count = 0 THEN "Empty" ELSE "Exhausted"

Satisfies(scan_type, content, value) ==
    CASE scan_type = "exact" -> content = value
      [] scan_type = "greater" -> content > value
      [] scan_type = "less" -> content < value

\* C7 (as claimed, for the scan types that compare with the given value):
\* filter_scan reads only at prior candidates and keeps exactly those whose
\* content satisfies the comparison named by scan_type.
C7_FilterByScanType ==
    [][(op' = "filter_scan" /\ backend = "custom" /\ is_connected /\ process_handle
            /\ current_scan_results # <<>>
            /\ scan_args'.value # None
            /\ InRange(scan_args'.value[1], scan_args'.value_type)
            /\ scan_args'.scan_type \in {"exact", "greater", "less"}) =>
          LET t == scan_args'.value_type
              n == SizeOf(t)
              keep == {a \in Range(current_scan_results) :
                          /\ ReadBytes(mem, a, n) # <<>>
                          /\ Satisfies(scan_args'.scan_type,
                                       FromBytes(ReadBytes(mem, a, n), t),
                                       scan_args'.value[1])}
          IN  /\ current_scan_results' = SelectSeqBy(current_scan_results, keep)
              /\ mem_reads' \subseteq
                    UNION {ReadSet(a, n) : a \in Range(current_scan_results)}]_vars

\* C8: after clear_scan or disconnect the session has scan_count 0 and no
\* candidates; clear_scan leaves the connection as it was.
C8_ClearAndDisconnect ==
    [][/\ scanner_call' \in {"clear_scan", "disconnect"} =>
             (scan_count' = 0 /\ current_scan_results' = <<>>)
       /\ scanner_call' = "clear_scan" =>
             (is_connected' = is_connected /\ process_handle' = process_handle)]_vars

\* clear_scan was called on a connected scanner that had scanned
C8_Witness ==
    /\ op = "clear_scan"
    /\ is_connected
    /\ scan_args.value # None
    /\ current_scan_results = <<>>
    /\ scan_count = 0

\* C9 (as claimed): start_workflow while running fails and changes nothing;
\* while idle with both collaborators it succeeds and arms monitoring.
C9_StartWorkflow ==
    [][op' = "start_workflow" =>
          IF is_running
          THEN /\ ~ret'.success
               /\ UNCHANGED <<is_running, workflow_state, monitoring,
                              monitoring_regions, current_scan_addresses,
                              current_scan_results>>
          ELSE (visual_analyzer /\ memory_scanner) =>
               /\ ret'.success
               /\ is_running'
               /\ monitoring'
               /\ workflow_state'.visual_monitoring]_vars

\* C10 (as claimed): start_workflow returns NoVisualAnalyzer / NoMemoryScanner
\* when that collaborator is absent, and monitoring is then not entered.
C10_MissingCollaborator ==
    [][(op' = "start_workflow" /\ ~is_running /\ ~ret'.raised) =>
          /\ ~visual_analyzer =>
                (~ret'.success /\ ret'.error = ErrNoVisualAnalyzer)
          /\ (visual_analyzer /\ ~memory_scanner) =>
                (~ret'.success /\ ret'.error = ErrNoMemoryScanner)
          /\ (~visual_analyzer \/ ~memory_scanner) =>
                (~is_running' /\ ~monitoring' /\ ~workflow_state'.visual_monitoring)]_vars

\* ======================================================= claims C11 .. C20
\* C11: stop_workflow on a running workflow succeeds; a second stop_workflow
\* directly after a successful one fails with "Workflow not running" and
\* changes no state of the orchestrator, the scanner or the analyzer.
C11_StopTwice ==
    [][op' = "stop_workflow" =>
          /\ is_running => (ret' = Ret(TRUE, "", <<>>) /\ ~is_running')
          /\ (op = "stop_workflow" /\ ret.success) =>
                /\ ret' = Ret(FALSE, ErrNotRunning, <<>>)
                /\ UNCHANGED <<mem, available, scanner_vars, orch_vars,
                               analyzer_vars>>]_vars

\* the second of two stop_workflow calls in a row, the first successful
C11_Witness ==
    /\ op = "stop_workflow"
    /\ prev_call = "ok"
    /\ ret = Ret(FALSE, ErrNotRunning, <<>>)
    /\ workflow_state.value_type # "unset"

C13_NoAutomaticBreakpoints ==
    [][(~workflow_state.breakpoints_set /\ workflow_state'.breakpoints_set) =>
          (op' = "set_breakpoints" /\ ret'.success)]_vars

\* a filter step left a non-empty list of few addresses and the breakpoint
\* flag is still false
C13_Witness ==
    /\ op = "handle_visual_change"
    /\ scanner_call = "filter_scan"
    /\ mem_reads # {}
    /\ current_scan_addresses # <<>>
    /\ Len(current_scan_addresses) <= FewAddresses
    /\ ~workflow_state.breakpoints_set

\* the phase of the workflow that a status dictionary shows
WorkflowPhase(status) ==
    IF ~status.is_running THEN "Idle"
    ELSE IF status.state.breakpoints_set THEN "BreakpointsReady"
    ELSE IF status.state.memory_scanning THEN "Scanning"
    ELSE "Monitoring"

\* C14 (as claimed): once a filter step has left a non-empty list of at
\* most FewAddresses addresses, get_workflow_status shows the workflow as
\* ready for breakpoint placement.
C14_ReadyMark ==
    (/\ op = "get_workflow_status"
     /\ is_running
     /\ gen_steps >= 2
     /\ current_scan_addresses # <<>>
     /\ current_scan_addresses = current_scan_results
     /\ Len(current_scan_addresses) <= FewAddresses) =>
        WorkflowPhase(ret.status[1]) = "BreakpointsReady"

\* C15: set_breakpoints without an adapter fails with "RE tool adapter not
\* set"; with an adapter, called without addresses while there are no
\* current addresses, it fails with "No addresses to set breakpoints at";
\* neither failure changes workflow_state (breakpoints_set included).
C15_SetBreakpointsFailures ==
    [][/\ (op' = "set_breakpoints" /\ ~re_adapter) =>
             (ret' = Ret(FALSE, ErrNoAdapter, <<>>) /\ UNCHANGED workflow_state)
       /\ (set_breakpoints(None) /\ re_adapter /\ current_scan_addresses = <<>>) =>
             (ret' = Ret(FALSE, ErrNoAddresses, <<>>) /\ UNCHANGED workflow_state)]_vars

\* set_breakpoints was refused for lack of addresses in a running workflow
\* that has an adapter and has not scanned yet
C15_Witness ==
    /\ op = "set_breakpoints"
    /\ re_adapter
    /\ is_running
    /\ ret = Ret(FALSE, ErrNoAddresses, <<>>)
    /\ current_scan_addresses = <<>>
    /\ detected_values = <<>>
    /\ ~workflow_state.breakpoints_set

\* C16: get_workflow_status changes nothing of the orchestrator, the scanner,
\* the analyzer or the target, and a call directly after another returns
\* the same dictionary.
C16_StatusIsPure ==
    [][op' = "get_workflow_status" =>
          /\ UNCHANGED <<mem, available, scanner_vars, orch_vars, analyzer_vars>>
          /\ op = "get_workflow_status" => ret' = ret]_vars

\* the second of two status calls in a row, in a running workflow that has
\* candidates and a non-empty detected-value log
C16_Witness ==
    /\ op = "get_workflow_status"
    /\ prev_call = "ok"
    /\ is_running
    /\ ret.status[1].current_addresses_count > 0
    /\ ret.status[1].detected_values_count > 0

\* ---- the byte stream of the connection
\* everything the peer wrote: each frame followed by the delimiter
RECURSIVE Stream(_)
Stream(entries) ==
    IF entries = <<>> THEN <<>>
    ELSE Head(entries).frame \o <<Newline>> \o Stream(Tail(entries))

\* the bytes the server has received so far
Received == SubSeq(Stream(sent), 1, Len(Stream(sent)) - Len(wire))

\* number of frames whose delimiter has been received
CompleteCount ==
    Cardinality({n \in 1..Len(sent) : Len(Stream(SubSeq(sent, 1, n))) <= Len(Received)})

\* the received bytes after the last received delimiter
ReceivedTail ==
    SubSeq(Received, Len(Stream(SubSeq(sent, 1, CompleteCount))) + 1, Len(Received))

\* a Message of the protocol: its type is a MessageType member and its
\* payload is a dict of JSON-native content
ValidMessage(message) ==
    /\ message.message_type.k = "enum"
    /\ message.message_type.v \in MessageTypeValues
    /\ message.payload.k = "dict"
    /\ JsonNative(message.payload.v)

\* every frame on the connection was written by send_message for a valid Message
OnlyValidSent ==
    \A i \in 1..Len(sent) :
        sent[i].message # <<>> /\ ValidMessage(sent[i].message[1])

Registered(message) ==
    message.message_type.k = "enum" /\ message.message_type.v \in message_handlers

\* C18: on a connection that carries only valid messages, however the
\* stream is cut into recv chunks, the messages dispatched (queued, and
\* handed to their handler when one is registered) are exactly the messages
\* whose delimiter has been received, once each and in sending order, and
\* the bytes received after the last delimiter are in the buffer,
\* undispatched.
C18_Framing ==
    OnlyValidSent =>
        /\ message_queue = [i \in 1..CompleteCount |-> sent[i].message[1]]
        /\ handled = SelectSeq(message_queue, Registered)
        /\ conn_open => (buffer = ReceivedTail /\ Newline \notin Range(buffer))

\* two valid messages were sent; the first was dispatched and a part of the
\* second is buffered
C18_Witness ==
    /\ Len(sent) = 2
    /\ OnlyValidSent
    /\ conn_open
    /\ Len(message_queue) = 1
    /\ buffer # <<>>
    /\ wire # <<>>

\* a frame that decodes to a Message of the protocol
WellFormedFrame(frame) ==
    /\ frame # <<>>
    /\ decode(frame).ok
    /\ decode(frame).message.message_type.k = "enum"
    /\ decode(frame).message.payload.k = "dict"

\* the messages of the well-formed frames among `entries`, in order
RECURSIVE WellFormedMessages(_)
WellFormedMessages(entries) ==
    IF entries = <<>> THEN <<>>
    ELSE (IF WellFormedFrame(Head(entries).frame)
          THEN <<decode(Head(entries).frame).message>> ELSE <<>>)
         \o WellFormedMessages(Tail(entries))

\* C19 (as claimed): a frame that is malformed or has an unknown type is
\* dropped and the connection stays open: what the server has queued is
\* exactly the messages of the well-formed frames received so far, in order.
C19_MalformedDropped ==
    [][op' = "recv" =>
          /\ conn_open'
          /\ message_queue' =
                (WellFormedMessages(SubSeq(sent, 1, CompleteCount)))']_vars

\* a message with a type that is a MessageType member without a handler
Unregistered(message) ==
    message.message_type.k = "enum" /\ message.message_type.v \notin message_handlers

\* C20: a well-formed message without a registered handler is queued and
\* not handed to any handler; nothing is ever removed from the queue, and
\* receiving does not close the connection.
C20_UnregisteredQueued ==
    [][/\ op' = "recv" => conn_open'
       /\ Len(message_queue) <= Len(message_queue')
       /\ SubSeq(message_queue', 1, Len(message_queue)) = message_queue
       /\ SelectSeq(message_queue', Unregistered) =
             (SelectSeq(WellFormedMessages(SubSeq(sent, 1, CompleteCount)),
                        Unregistered))'
       /\ SelectSeq(handled', Unregistered) = <<>>]_vars

\* a ping, which has no handler, was queued and is still first in the queue
\* after a later message was received on the open connection
C20_Witness ==
    /\ conn_open
    /\ Len(message_queue) >= 2
    /\ message_queue[1].message_type = PyVal("enum", "ping")
    /\ handled # <<>>
    /\ \A i \in 1..Len(handled) : handled[i].message_type # PyVal("enum", "ping")


\* ===================================================================== C26
\* the first backend of the fixed order x64dbg, cheat_engine, custom that
\* connects, "none" when none does
FirstConnecting(avail) ==
    IF "x64dbg" \in avail THEN "x64dbg"
    ELSE IF "cheat_engine" \in avail THEN "cheat_engine"
    ELSE IF "custom" \in avail THEN "custom"
    ELSE "none"

\* C26: scanner selection returns the preferred backend when it connects,
\* otherwise the first backend of the order x64dbg, cheat_engine, custom that
\* connects; it returns no scanner only when every backend fails to connect,
\* and a returned scanner is connected.  Checked for every preference and
\* every set of connecting backends, and on the scanner the orchestrator
\* was constructed with.
C26_Selection ==
    /\ \A p \in PreferredInputs, avail \in SUBSET Backends :
          LET scanner == create_scanner(p, avail)
          IN  /\ (p # None /\ p[1] \in avail) => scanner = p[1]
              /\ (p = None \/ p[1] \notin avail) => scanner = FirstConnecting(avail)
              /\ (scanner = "none") <=> (avail = {})
              /\ scanner # "none" => scanner \in avail
    /\ op = "init" =>
          /\ \E p \in PreferredInputs : backend = create_scanner(p, available)
          /\ backend # "none" => (backend \in available /\ is_connected)
          /\ (backend = "none") <=> (available = {})
          /\ backend \notin {"none", FirstConnecting(available)} =>
                create_scanner(Some(backend), available) = backend

\* an orchestrator constructed with the preference "custom" while x64dbg
\* connects as well: the preferred backend was taken, not the first of the order
C26_Witness ==
    /\ op = "init"
    /\ backend = "custom"
    /\ is_connected
    /\ "x64dbg" \in available

\* ===================================================================== C27
\* C27: when the communication server failed to bind at construction, the
\* orchestrator never reaches Monitoring (no start_workflow succeeds).
C27_BindFailureBlocksMonitoring ==
    ~communication_server => (~is_running /\ ~(op = "start_workflow" /\ ret.success))


\* ===================================================================== C21
\* the pings the server has received and decoded on the connection
ReceivedPings ==
    {message_queue[i] : i \in {j \in 1..Len(message_queue) :
        message_queue[j].message_type = PyVal("enum", "ping")}}

\* the server has written a pong carrying the correlation id on the connection
PongSent(message_id) ==
    \E i \in 1..Len(replies) :
        /\ decode(replies[i]).ok
        /\ decode(replies[i]).message.message_type = PyVal("enum", "pong")
        /\ decode(replies[i]).message.message_id = message_id

\* C21: every well-formed, newline-terminated ping received on a connection
\* is eventually answered on that connection by a pong with the same
\* correlation id.
C21_PingPong ==
    \A message_id \in {m.message_id : m \in MessageInputs} :
        (\E m \in ReceivedPings : m.message_id = message_id) ~> PongSent(message_id)


\* ===================================================================== C22
\* C22: a send_message on a client that never connected connects first; a
\* send on a dropped connection that reports failure has made exactly one
\* reconnect attempt; no send_message call makes more than one connect attempt.
C22_LazyConnectOneReconnect ==
    [][op' = "client_send_message" =>
        /\ (~client_socket /\ ~client_connected) => connect_attempts' = 1
        /\ (client_socket /\ ~link_alive /\ ~ret'.success) => connect_attempts' = 1
        /\ connect_attempts' <= 1]_vars


\* ===================================================================== C23
\* the last operation was a detect_changes call
Detected == op = "detect_changes" /\ detect_result # None

\* C23 as stated: detect_changes(frame, None) always returns changed = False
\* and change_percentage 0 and stores the frame, whatever was called before.
C23_NullPreviousNeverChanged ==
    (Detected /\ ~detect_result[1].explicit) =>
        /\ ~detect_result[1].changed
        /\ detect_result[1].changed_pixels = 0
        /\ previous_frame = Some(detect_result[1].current)

\* C23 (amended): detect_changes(frame, None) stores the frame; on a
\* detector without a stored baseline (new, or reset) it returns changed =
\* False and change_percentage 0, on a detector with a stored baseline it
\* compares the frame with that baseline.
C23_FirstFrameNeverChanged ==
    [][(op' = "detect_changes" /\ ~detect_result'[1].explicit) =>
        /\ previous_frame' = Some(detect_result'[1].current)
        /\ previous_frame = None =>
              /\ ~detect_result'[1].changed
              /\ detect_result'[1].changed_pixels = 0
              /\ detect_result'[1].compared = None
        /\ previous_frame # None =>
              /\ detect_result'[1].compared = previous_frame
              /\ detect_result'[1].changed_pixels =
                    changed_pixels(binarize(detect_result'[1].current, previous_frame[1]))]_vars

\* a first frame that is not black, on a detector whose threshold was lowered
\* before: no change is reported and the frame is the baseline
C23_Witness ==
    /\ Detected
    /\ ~detect_result[1].explicit
    /\ detect_result[1].compared = None
    /\ detect_result[1].current # BlackFrame
    /\ ~detect_result[1].changed
    /\ threshold = 1
    /\ previous_frame = Some(detect_result[1].current)

\* ===================================================================== C24
\* C24: detect_changes reports changed exactly when the change ratio is
\* strictly above the threshold; without a change no region is returned;
\* every returned region has at least the minimum area; a frame identical
\* to the baseline gives changed = False and ratio 0.
C24_ChangedIffAboveThreshold ==
    (Detected /\ detect_result[1].compared # None) =>
        LET r == detect_result[1]
        IN  /\ r.changed <=> (r.changed_pixels * 100 > threshold * total_pixels)
            /\ ~r.changed => r.changed_regions = {}
            /\ \A region \in r.changed_regions : region[3] * region[4] >= min_change_area
            /\ r.compared = Some(r.current) => (~r.changed /\ r.changed_pixels = 0)

\* the square and the dot changed, 4.25% of the frame with the threshold at
\* 1%: a change with the square as its only region, the dot dropped as noise
C24_Witness ==
    /\ Detected
    /\ detect_result[1].changed
    /\ detect_result[1].changed_pixels = 425
    /\ detect_result[1].changed_regions = {Rects.sq20}

\* ===================================================================== C25
\* Scenario B: the last call compared the all-black frame with the frame
\* that has the white 20 x 20 square
WhiteSquare == [BlackFrame EXCEPT !.sq20 = White]
ScenarioB ==
    /\ Detected
    /\ detect_result[1].compared = Some(BlackFrame)
    /\ detect_result[1].current = WhiteSquare

\* C25 as stated: with the default thresholds Scenario B gives changed = True
\* and exactly one region of area 400.
C25_SquareDetectedByDefault ==
    (ScenarioB /\ threshold = 10) =>
        /\ detect_result[1].changed
        /\ Cardinality(detect_result[1].changed_regions) = 1
        /\ \A region \in detect_result[1].changed_regions : region[3] * region[4] = 400

\* C25 (amended): in Scenario B 400 of 10000 pixels differ.  With the default
\* threshold 0.1 that is below the threshold: changed = False and no region.
\* With the threshold 0.01 it is a change with exactly one region, the
\* 20 x 20 bounding box of the square (area 400).
C25_SquareNeedsLowerThreshold ==
    ScenarioB =>
        /\ detect_result[1].changed_pixels = 400
        /\ threshold = 10 =>
              (~detect_result[1].changed /\ detect_result[1].changed_regions = {})
        /\ threshold = 1 =>
              /\ detect_result[1].changed
              /\ detect_result[1].changed_regions = {<<10, 10, 20, 20>>}

\* Scenario B on a detector with the default threshold
C25_Witness ==
    /\ ScenarioB
    /\ threshold = 10
    /\ ~detect_result[1].changed

\* ===================================================================== C28
\* C28: after every detect_changes call, whatever it returned and whether
\* or not a previous frame was passed, the stored baseline is the current
\* frame of that call.
C28_BaselineIsCurrent ==
    [][op' = "detect_changes" => previous_frame' = Some(detect_result'[1].current)]_vars

\* a call with an explicit previous frame that reported no change although
\* the frames differ: the current frame is the baseline all the same
C28_Witness ==
    /\ Detected
    /\ detect_result[1].explicit
    /\ ~detect_result[1].changed
    /\ detect_result[1].compared # Some(detect_result[1].current)
    /\ previous_frame = Some(detect_result[1].current)


\* ===================================================================== C29
\* C29: reset() clears the stored baseline, so the first detect_changes call
\* after a monitoring restart (a stop followed by a start) reports changed =
\* False, whatever frames were seen before the restart.
C29_FirstDetectAfterRestart ==
    [][(op' = "analyze_region" /\ Len(threads) >= 2 /\ detects_since_start = 0) =>
        ~detect_result'[1].changed]_vars

\* ===================================================================== C30
\* C30: in a running workflow, a change the monitoring loop detects with an
\* extracted value makes the orchestrator's scan-or-filter step run inside
\* that loop iteration, before the next frame is sampled.
C30_ScanInsideLoop ==
    [][(/\ op' = "analyze_region"
        /\ is_running
        /\ detect_result'[1].changed
        /\ extract_value(detect_result'[1].current) # None) =>
            scanner_call' \in {"initial_scan", "filter_scan"}]_vars


LiveLoops == {t \in 1..Len(threads) : threads[t] # -1}

\* C32: once a stop has cleared the liveness flag for a loop, that loop
\* starts no new iteration (it ends at its next test of the flag).  A loop
\* older than the current monitoring thread has had its flag cleared by the
\* stop that preceded the later start.
C32_NoIterationAfterStop ==
    [][\A t \in 1..Len(threads) :
          (t < monitoring_thread /\ threads[t] = 0) => threads'[t] \in {0, -1}]_vars

\* ===================================================================== C35
\* C35: with several regions monitored, the frame of a region is compared
\* with the frame sampled last from that same region, never with a frame
\* sampled from another region.
C35_ComparedWithSameRegion ==
    [][(op' = "analyze_region" /\ detect_result'[1].compared # None) =>
          detect_result'[1].compared = sampled.frames[sampled'.region]]_vars

\* ===================================================================== C37
\* C37: at most one monitoring loop is live for the analyzer at any time,
\* also after a stop whose join timed out and a start that followed it.
C37_OneLiveLoop == Cardinality(LiveLoops) <= 1

\* C34 (as claimed): the orchestrator's detected-value log is bounded by a
\* fixed capacity.  The code appends every change event of a running workflow
\* and has no capacity; the model follows the log up to MaxLog entries, and the
\* claim is stated for every capacity below that length.
C34_LogBounded == Len(detected_values) < MaxLog

\* C36 (as claimed): a start_workflow that fails because the memory scanner is
\* absent leaves no monitoring loop running and visual_monitoring false, and a
\* start_workflow that follows it is not refused because of the earlier failure.
C36_FailedStartNoSideEffect ==
    [][/\ (op' = "start_workflow" /\ ~ret'.raised
              /\ ret'.error = ErrNoMemoryScanner) =>
             (~monitoring' /\ ~workflow_state'.visual_monitoring)
       /\ (op = "start_workflow" /\ ~ret.raised /\ ret.error = ErrNoMemoryScanner
              /\ op' = "start_workflow") =>
             ret'.error # ErrMonitoringFailed]_vars

\* C38 (as claimed): while the workflow is not running, a visual-change or
\* scan-result message changes neither the current addresses, nor the
\* detected-value log, nor the workflow state.
C38_InboundIgnoredWhenStopped ==
    [][(op' \in {"handle_visual_change", "handle_scan_result"} /\ ~is_running) =>
          UNCHANGED <<current_scan_addresses, detected_values, workflow_state>>]_vars

\* C39 (as claimed): between operations the current_addresses of the workflow
\* state equals the orchestrator's current candidate address list.
C39_ReportedAddressesCurrent ==
    workflow_state.current_addresses = current_scan_addresses

\* C40 (as claimed): a workflow started directly after a successful
\* stop_workflow begins with breakpoints_set false.
C40_FreshSession ==
    [][(op = "stop_workflow" /\ ret.success
           /\ op' = "start_workflow" /\ ret'.success) =>
          ~workflow_state'.breakpoints_set]_vars

\* C31 (as claimed): handlers of separate connections interleaved with each
\* other and with stop_workflow only reach states a serial order reaches.  In
\* every serial order an initial scan runs only while the orchestrator holds no
\* candidate addresses, and the candidate list is empty whenever the workflow
\* is not running.
C31_SerialOutcomes ==
    [][/\ (op' = "perform_scan" /\ scanner_call' = "initial_scan") =>
             current_scan_addresses = <<>>
       /\ ~is_running' => current_scan_addresses' = <<>>]_vars

====
